---- MODULE Spec2Model ----
(***************************************************************************)
(* Model of the X11 keyboard session of window/src/os/x11/keyboard.rs:     *)
(* struct Keyboard (keymap, state, compose_state, device_id) and its       *)
(* operations new, process_key_event, get_key_modifiers,                   *)
(* process_xkb_event, update_state and update_keymap.                      *)
(*                                                                         *)
(* The session is single-threaded (RefCell fields, &self methods called    *)
(* from one event loop), so every operation is one atomic action.          *)
(* The xkbcommon objects are modelled by their observable behaviour:       *)
(*   - a keymap is an object identity (gen) plus the layout it compiles;   *)
(*   - a state object keeps the keymap it was created from and the six     *)
(*     components update_mask sets;                                        *)
(*   - a compose state is a position in the compose table's trie           *)
(*     (context) and the position before the last feed (prev_context).     *)
(*                                                                         *)
(* A second specification, FontSpec, applies TextStyle::font_with_fallback *)
(* of config/src/font.rs to a bounded set of text styles.                  *)
(***************************************************************************)
EXTENDS Integers, Sequences, FiniteSets, TLC

VARIABLES phase, device_id, keymap, state, compose_state, last

\* config/src/font.rs: a TextStyle and the list its font_with_fallback
\* returned
VARIABLES style, fonts

font_vars == <<style, fonts>>

vars == <<phase, device_id, keymap, state, compose_state, last, style, fonts>>

(***************************************************************************)
(* Bounds of the model.                                                    *)
(***************************************************************************)
\* keymap objects built by successful reloads after the bootstrap one
MaxReloads == 1
\* device identifiers 0..MaxDevice (plus -1, "no core keyboard")
MaxDevice == 1
\* longest font list of a TextStyle
MaxFonts == 3

(***************************************************************************)
(* Input samples.                                                          *)
(***************************************************************************)
\* physical key codes carried by key press/release events (xcb_ev.detail())
Keycodes == 1..9

\* layouts the server can hand out
Layouts == {"us", "intl"}

\* real modifier names of an X11 keymap
ModNames == {"Shift", "Lock", "Control", "Mod1", "Mod2", "Mod3", "Mod4"}

\* the six components of a state object: the arguments of update_mask
Masks(bm, lam, lom, bg, lag, log) ==
    [base_mods |-> bm, latched_mods |-> lam, locked_mods |-> lom,
     base_group |-> bg, latched_group |-> lag, locked_group |-> log]

\* modifier/group states carried by state-notify events / reported by the
\* server
ServerStates ==
    {Masks({}, {}, {}, 0, 0, 0),
     Masks({"Shift"}, {}, {}, 0, 0, 0),
     Masks({"Control", "Mod1", "Mod4"}, {}, {}, 0, 0, 0),
     Masks({"Shift"}, {"Mod3"}, {}, 0, 0, 0),
     Masks({}, {}, {"Mod2"}, 0, 0, 0),
     Masks({}, {}, {}, 0, 0, 1),
     Masks({"Shift"}, {}, {}, 0, 0, 1),
     Masks({}, {}, {}, 1, 1, 0)}

ZeroServerState == Masks({}, {}, {}, 0, 0, 0)

\* device identifiers get_core_keyboard_device_id can return
DeviceIds == (-1)..MaxDevice
\* device identifiers a protocol event can carry (u8 field)
EventDeviceIds == 0..MaxDevice

\* xkb_type discriminators of the generic protocol event
XkbTypes == {"STATE_NOTIFY", "MAP_NOTIFY", "NEW_KEYBOARD_NOTIFY", "CONTROLS_NOTIFY"}

(***************************************************************************)
(* xkb::Keymap / xkb::State                                                *)
(***************************************************************************)
NullGen == -1

\* a keymap handle: gen = NullGen is the null pointer
Keymap(gen, layout) == [gen |-> gen, layout |-> layout]

NullKeymap == Keymap(NullGen, "none")

\* xkb::x11::state_new_from_device(&keymap, ..): a state object of `km`,
\* initialised with the masks the server reports for the device (`srv`)
StateOf(km, srv) ==
    [keymap |-> km, null |-> FALSE,
     base_mods |-> srv.base_mods, latched_mods |-> srv.latched_mods,
     locked_mods |-> srv.locked_mods, base_group |-> srv.base_group,
     latched_group |-> srv.latched_group, locked_group |-> srv.locked_group]

\* placeholder before a session exists
NoState == [StateOf(NullKeymap, ZeroServerState) EXCEPT !.null = TRUE]

\* number of groups of a layout
NumGroups(layout) == IF layout = "intl" THEN 2 ELSE 1

\* XKB_STATE_MODS_EFFECTIVE: base | latched | locked
EffectiveMods(st) == st.base_mods \cup st.latched_mods \cup st.locked_mods

\* XKB_STATE_LAYOUT_EFFECTIVE: the sum of the groups wrapped into range
EffectiveGroup(st) ==
    (st.base_group + st.latched_group + st.locked_group)
        % NumGroups(st.keymap.layout)

\* the two shift levels of a key in a layout/group
KeyLevels(layout, group, xcode) ==
    CASE xcode = 1 -> <<"c", "C">>
      [] xcode = 2 -> <<"e", "E">>
      [] xcode = 3 -> <<"Return", "Return">>
      [] xcode = 4 -> <<"Shift_L", "Shift_L">>
      [] xcode = 5 -> IF layout = "intl" THEN <<"dead_acute", "dead_acute">>
                                           ELSE <<"apostrophe", "apostrophe">>
      [] xcode = 6 -> <<"Multi_key", "Multi_key">>
      [] xcode = 7 -> <<"space", "space">>
      [] xcode = 8 -> IF layout = "intl" /\ group = 1
                         THEN <<"eacute", "F1">>
                         ELSE <<"Delete", "F1">>
      [] OTHER -> <<"NoSymbol", "NoSymbol">>

\* self.state.borrow().key_get_one_sym(xcode)
key_get_one_sym(st, xcode) ==
    KeyLevels(st.keymap.layout, EffectiveGroup(st), xcode)
        [IF "Shift" \in EffectiveMods(st) THEN 2 ELSE 1]

\* state.mod_name_is_active(modifier, xkb::STATE_MODS_EFFECTIVE); a name the
\* keymap does not know is reported inactive
mod_is_active(st, modifier) ==
    modifier \in ModNames /\ modifier \in EffectiveMods(st)

(***************************************************************************)
(* xkb::compose::State over the table loaded at bootstrap                  *)
(***************************************************************************)
\* the compose table: left-hand sides and the keysym each one produces
\* ("NoSymbol": the sequence produces a string only)
ComposeSeqs ==
    {<<"dead_acute", "e">>, <<"dead_acute", "c">>,
     <<"dead_acute", "dead_acute">>, <<"Multi_key", "e", "e">>, <<"E">>}

ComposeResult(seq) ==
    CASE seq = <<"dead_acute", "e">> -> "eacute"
      [] seq = <<"dead_acute", "c">> -> "NoSymbol"
      [] seq = <<"dead_acute", "dead_acute">> -> "NoSymbol"
      [] seq = <<"Multi_key", "e", "e">> -> "schwa"
      [] seq = <<"E">> -> "eacute"
      [] OTHER -> "NoSymbol"

Root == <<>>

\* nodes of the trie: every prefix of a left-hand side
ComposeNodes ==
    UNION {{SubSeq(seq, 1, n) : n \in 0..Len(seq)} : seq \in ComposeSeqs}

\* the root is a dummy leaf, the other leaves are the complete sequences
IsLeaf(node) == node = Root \/ node \in ComposeSeqs

\* keysyms that feed() ignores (xkb_keysym_is_modifier)
ModifierSyms == {"Shift_L"}

NewComposeState == [prev_context |-> Root, context |-> Root]

\* compose_state.feed(xsym)
feed(cs, xsym) ==
    IF xsym \in ModifierSyms THEN cs
    ELSE LET from == IF IsLeaf(cs.context) THEN Root ELSE cs.context
             next == Append(from, xsym)
         IN [prev_context |-> cs.context,
             context |-> IF next \in ComposeNodes THEN next ELSE Root]

\* compose_state.status()
status(cs) ==
    CASE cs.context = Root /\ ~IsLeaf(cs.prev_context) -> "Cancelled"
      [] cs.context = Root /\ IsLeaf(cs.prev_context) -> "Nothing"
      [] cs.context # Root /\ ~IsLeaf(cs.context) -> "Composing"
      [] OTHER -> "Composed"

\* compose_state.keysym(): Some(sym) of a completed sequence, else None
keysym(cs) ==
    IF status(cs) = "Composed" THEN ComposeResult(cs.context) ELSE "NoSymbol"

\* compose_state.reset()
reset(cs) == NewComposeState

(***************************************************************************)
(* keysym_to_keycode (crate::os::xkeysyms): keysym -> Option<KeyCode>      *)
(***************************************************************************)
KeyCode(kind, c) == [kind |-> kind, c |-> c]

NoKeyCode == KeyCode("None", 0)

keysym_to_keycode(sym) ==
    CASE sym = "c" -> KeyCode("Char", 99)
      [] sym = "C" -> KeyCode("Char", 67)
      [] sym = "e" -> KeyCode("Char", 101)
      [] sym = "E" -> KeyCode("Char", 69)
      [] sym = "eacute" -> KeyCode("Char", 233)
      [] sym = "apostrophe" -> KeyCode("Char", 39)
      [] sym = "Return" -> KeyCode("Char", 13)
      [] sym = "space" -> KeyCode("Char", 32)
      [] sym = "Delete" -> KeyCode("Char", 127)
      [] sym = "F1" -> KeyCode("Function", 1)
      [] sym = "Shift_L" -> KeyCode("Shift", 0)
      [] OTHER -> NoKeyCode

\* variant: no fallback to the lookup of the resolved symbol
OrElseNone(a, b) == a

\* Option::or_else on the two lookups of line 135
OrElse(a, b) == IF a # NoKeyCode THEN a ELSE b

\* char::is_ascii_whitespace: space, tab, line feed, form feed, carriage return
is_ascii_whitespace(c) == c \in {32, 9, 10, 12, 13}

\* char::is_ascii_control: U+0000..U+001F and U+007F
is_ascii_control(c) == c \in 0..31 \/ c = 127

(***************************************************************************)
(* Modifiers                                                               *)
(***************************************************************************)
\* variant: Mod3 is not reported as SUPER
get_key_modifiersNoMod3(st) ==
    (IF mod_is_active(st, "Shift") THEN {"SHIFT"} ELSE {})
    \cup (IF mod_is_active(st, "Control") THEN {"CTRL"} ELSE {})
    \cup (IF mod_is_active(st, "Mod1") THEN {"ALT"} ELSE {})
    \cup (IF mod_is_active(st, "Mod4") THEN {"SUPER"} ELSE {})

\* Keyboard::get_key_modifiers
get_key_modifiers(st) ==
    (IF mod_is_active(st, "Shift") THEN {"SHIFT"} ELSE {})
    \cup (IF mod_is_active(st, "Control") THEN {"CTRL"} ELSE {})
    \cup (IF mod_is_active(st, "Mod1") THEN {"ALT"} ELSE {})
    \cup (IF mod_is_active(st, "Mod4") THEN {"SUPER"} ELSE {})
    \cup (IF mod_is_active(st, "Mod3") THEN {"SUPER"} ELSE {})

\* the shift correction without the whitespace/control guard
CorrectedModifiersAnyChar(kc, raw_modifiers) ==
    IF kc.kind = "Char" THEN raw_modifiers \ {"SHIFT"} ELSE raw_modifiers

\* variant: a printable character drops every modifier, not only SHIFT
CorrectedModifiersClearsAll(kc, raw_modifiers) ==
    IF kc.kind = "Char" /\ ~is_ascii_whitespace(kc.c) /\ ~is_ascii_control(kc.c)
    THEN {}
    ELSE raw_modifiers

\* the match on (&kc, raw_modifiers) that computes `modifiers`
CorrectedModifiers(kc, raw_modifiers) ==
    IF kc.kind = "Char" /\ ~is_ascii_whitespace(kc.c) /\ ~is_ascii_control(kc.c)
    THEN raw_modifiers \ {"SHIFT"}
    ELSE raw_modifiers

(***************************************************************************)
(* Keyboard::process_key_event                                             *)
(***************************************************************************)
\* marker of "no effective symbol": the call returned before computing ksym
NoKsym == "none"

Arm(returns, cs, ksym) == [returns |-> returns, compose |-> cs, ksym |-> ksym]

\* variant: the Composing arm also resets the machine
OnComposingReset(cs, xsym) == Arm(TRUE, reset(cs), NoKsym)

\* ComposeStatus::Composing => return None
OnComposing(cs, xsym) == Arm(TRUE, cs, NoKsym)

\* variant: the Composed arm forgets the reset
OnComposedNoReset(cs, xsym) ==
    LET res == keysym(cs)
    IN Arm(FALSE, cs, IF res # "NoSymbol" THEN res ELSE xsym)

\* variant: the Composed arm resets but keeps the pressed symbol
OnComposedKeepsXsym(cs, xsym) == Arm(FALSE, reset(cs), xsym)

\* ComposeStatus::Composed => keysym(), reset(), res.unwrap_or(xsym)
OnComposed(cs, xsym) ==
    LET res == keysym(cs)
    IN Arm(FALSE, reset(cs), IF res # "NoSymbol" THEN res ELSE xsym)

\* variant: the Nothing arm swallows the press like the Composing arm
OnNothingSwallow(cs, xsym) == Arm(TRUE, cs, NoKsym)

\* ComposeStatus::Nothing => xsym
OnNothing(cs, xsym) == Arm(FALSE, cs, xsym)

\* variant: the Cancelled arm returns without the reset
OnCancelledNoReset(cs, xsym) == Arm(TRUE, cs, NoKsym)

\* variant: the Cancelled arm resets but lets the symbol through
OnCancelledPassThrough(cs, xsym) == Arm(FALSE, reset(cs), xsym)

\* ComposeStatus::Cancelled => reset(), return None
OnCancelled(cs, xsym) == Arm(TRUE, reset(cs), NoKsym)

\* the `if pressed` branch: feed, status, match
OnPress(cs, xsym) ==
    LET fed == feed(cs, xsym)
        cstate == status(fed)
    IN CASE cstate = "Composing" -> OnComposing(fed, xsym)
         [] cstate = "Composed" -> OnComposed(fed, xsym)
         [] cstate = "Nothing" -> OnNothing(fed, xsym)
         [] cstate = "Cancelled" -> OnCancelled(fed, xsym)

\* variant: a release is fed to the compose machine too
OnReleaseFed(cs, xsym) == Arm(FALSE, feed(cs, xsym), xsym)

\* variant: a release resets the compose machine
OnReleaseReset(cs, xsym) == Arm(FALSE, reset(cs), xsym)

\* the `else` branch: a release uses xsym and leaves the compose state alone
OnRelease(cs, xsym) == Arm(FALSE, cs, xsym)

KeyEvent(kc, modifiers, raw_modifiers, xcode, pressed) ==
    [key |-> kc, modifiers |-> modifiers, raw_modifiers |-> raw_modifiers,
     raw_code |-> xcode, repeat_count |-> 1, key_is_down |-> pressed]

\* placeholder carried by `last` when the call returned None
NoEvent == KeyEvent(NoKeyCode, {}, {}, 0, FALSE)

\* the whole function: the compose state it leaves and the Option<KeyEvent>
process_key_event(st, cs, pressed, xcode) ==
    LET xsym == key_get_one_sym(st, xcode)
        arm == IF pressed THEN OnPress(cs, xsym) ELSE OnRelease(cs, xsym)
        kc == OrElse(keysym_to_keycode(arm.ksym), keysym_to_keycode(xsym))
        raw_modifiers == get_key_modifiers(st)
        modifiers == CorrectedModifiers(kc, raw_modifiers)
        emitted == ~arm.returns /\ kc # NoKeyCode
    IN [compose |-> arm.compose,
        xsym |-> xsym,
        cstate |-> IF pressed THEN status(feed(cs, xsym)) ELSE "NotFed",
        ksym |-> arm.ksym,
        emitted |-> emitted,
        event |-> IF emitted
                  THEN KeyEvent(kc, modifiers, raw_modifiers, xcode, pressed)
                  ELSE NoEvent]

(***************************************************************************)
(* Keyboard::process_xkb_event, update_state, update_keymap                *)
(***************************************************************************)
\* the fields of a StateNotifyEvent that update_state reads
XkbEvent(dev, type, masks) ==
    [device_id |-> dev, xkb_type |-> type, masks |-> masks]

\* protocol events: state notifications carry masks, the others do not
XkbEvents ==
    {XkbEvent(dev, "STATE_NOTIFY", m) : dev \in EventDeviceIds, m \in ServerStates}
    \cup {XkbEvent(dev, type, ZeroServerState) :
            dev \in EventDeviceIds, type \in XkbTypes \ {"STATE_NOTIFY"}}

\* server states sampled at a reload
ReloadStates ==
    {ZeroServerState, Masks({"Shift"}, {}, {}, 0, 0, 1)}

\* what the server answers to the two requests of a reload
ReloadEnv(km_ok, st_ok, layout, srv) ==
    [km_ok |-> km_ok, st_ok |-> st_ok, layout |-> layout, srv |-> srv]

NoReload == ReloadEnv(FALSE, FALSE, "none", ZeroServerState)

ReloadEnvs ==
    {NoReload}
    \cup {ReloadEnv(TRUE, FALSE, l, ZeroServerState) : l \in Layouts}
    \cup {ReloadEnv(TRUE, TRUE, l, srv) : l \in Layouts, srv \in ReloadStates}

\* `as u8`
AsU8(n) == n % 256

\* Keyboard::get_device_id
get_device_id(dev) == dev

\* masks sampled for state notifications of devices other than the session's
OtherDeviceStates ==
    {Masks({"Control", "Mod1", "Mod4"}, {}, {}, 0, 0, 0),
     Masks({"Shift"}, {}, {}, 0, 0, 1)}

\* the protocol events delivered to a session whose device is dev
XkbEventsFor(dev) ==
    {ev \in XkbEvents :
        \/ ev.device_id = AsU8(dev)
        \/ ev.xkb_type # "STATE_NOTIFY"
        \/ ev.masks \in OtherDeviceStates}

\* variant: the device check is missing
DeviceMatchesAny(ev_dev, dev) == TRUE

\* xkb_ev.device_id() == self.get_device_id() as u8
DeviceMatches(ev_dev, dev) == ev_dev = AsU8(get_device_id(dev))

\* variant: the latched and locked group arguments are passed in swapped order
update_stateSwapGroups(st, ev) ==
    [st EXCEPT !.base_mods = ev.masks.base_mods,
               !.latched_mods = ev.masks.latched_mods,
               !.locked_mods = ev.masks.locked_mods,
               !.base_group = ev.masks.base_group,
               !.latched_group = ev.masks.locked_group,
               !.locked_group = ev.masks.latched_group]

\* variant: the locked group of the event is not applied
update_stateNoLockedGroup(st, ev) ==
    [st EXCEPT !.base_mods = ev.masks.base_mods,
               !.latched_mods = ev.masks.latched_mods,
               !.locked_mods = ev.masks.locked_mods,
               !.base_group = ev.masks.base_group,
               !.latched_group = ev.masks.latched_group]

\* Keyboard::update_state: state.update_mask(..) on the current state object
update_state(st, ev) ==
    [st EXCEPT !.base_mods = ev.masks.base_mods,
               !.latched_mods = ev.masks.latched_mods,
               !.locked_mods = ev.masks.locked_mods,
               !.base_group = ev.masks.base_group,
               !.latched_group = ev.masks.latched_group,
               !.locked_group = ev.masks.locked_group]

\* result of a protocol event: the Result returned, the (keymap, state) pair
\* the session holds afterwards, and the path the handler took
Outcome(result, km, st, note) ==
    [result |-> result, keymap |-> km, state |-> st, note |-> note]

\* variant: the keymap is replaced before the new state is validated
update_keymapEarlyReplace(km, st, env) ==
    LET new_keymap == IF env.km_ok THEN Keymap(km.gen + 1, env.layout)
                                   ELSE NullKeymap
        new_state == IF env.st_ok THEN StateOf(new_keymap, env.srv) ELSE NoState
    IN IF new_keymap.gen = NullGen THEN Outcome("Err", km, st, "keymap_null")
       ELSE IF new_state.null THEN Outcome("Err", new_keymap, st, "state_null")
       ELSE Outcome("Ok", new_keymap, new_state, "reloaded")

\* variant: a successful reload replaces the state but keeps the old keymap
update_keymapStateOnly(km, st, env) ==
    LET new_keymap == IF env.km_ok THEN Keymap(km.gen + 1, env.layout)
                                   ELSE NullKeymap
        new_state == IF env.st_ok THEN StateOf(new_keymap, env.srv) ELSE NoState
    IN IF new_keymap.gen = NullGen THEN Outcome("Err", km, st, "keymap_null")
       ELSE IF new_state.null THEN Outcome("Err", km, st, "state_null")
       ELSE Outcome("Ok", km, new_state, "reloaded")

\* variant: the new state object inherits the masks of the old one
update_keymapKeepsMasks(km, st, env) ==
    LET new_keymap == IF env.km_ok THEN Keymap(km.gen + 1, env.layout)
                                   ELSE NullKeymap
        new_state == IF env.st_ok THEN [st EXCEPT !.keymap = new_keymap]
                                  ELSE NoState
    IN IF new_keymap.gen = NullGen THEN Outcome("Err", km, st, "keymap_null")
       ELSE IF new_state.null THEN Outcome("Err", km, st, "state_null")
       ELSE Outcome("Ok", new_keymap, new_state, "reloaded")

\* Keyboard::update_keymap
update_keymap(km, st, env) ==
    LET new_keymap == IF env.km_ok THEN Keymap(km.gen + 1, env.layout)
                                   ELSE NullKeymap
        new_state == IF env.st_ok THEN StateOf(new_keymap, env.srv) ELSE NoState
    IN IF new_keymap.gen = NullGen THEN Outcome("Err", km, st, "keymap_null")
       ELSE IF new_state.null THEN Outcome("Err", km, st, "state_null")
       ELSE Outcome("Ok", new_keymap, new_state, "reloaded")

\* variant: every sub-type other than a state notification reloads
process_xkb_eventReloadsOther(dev, km, st, ev, env) ==
    IF DeviceMatches(ev.device_id, dev)
    THEN CASE ev.xkb_type = "STATE_NOTIFY" ->
                Outcome("Ok", km, update_state(st, ev), "update_state")
           [] OTHER -> update_keymap(km, st, env)
    ELSE Outcome("Ok", km, st, "other_device")

\* Keyboard::process_xkb_event
process_xkb_event(dev, km, st, ev, env) ==
    IF DeviceMatches(ev.device_id, dev)
    THEN CASE ev.xkb_type = "STATE_NOTIFY" ->
                Outcome("Ok", km, update_state(st, ev), "update_state")
           [] ev.xkb_type \in {"MAP_NOTIFY", "NEW_KEYBOARD_NOTIFY"} ->
                update_keymap(km, st, env)
           [] OTHER -> Outcome("Ok", km, st, "other_type")
    ELSE Outcome("Ok", km, st, "other_device")

(***************************************************************************)
(* Keyboard::new                                                           *)
(***************************************************************************)
\* what the server and the process environment answer during bootstrap
BootEnvs ==
    [ext_data : BOOLEAN, reply : BOOLEAN, supported : BOOLEAN,
     device_id : DeviceIds, locale : BOOLEAN, utf8 : BOOLEAN,
     table : BOOLEAN, subscribed : BOOLEAN,
     layout : Layouts, srv : ServerStates]

\* variant: the check of the core keyboard device id is missing
NewSucceedsNoDeviceCheck(b) ==
    /\ b.ext_data
    /\ b.reply
    /\ b.supported
    /\ b.locale
    /\ b.utf8
    /\ b.table
    /\ b.subscribed

\* TRUE iff every `?` and `ensure!` of new() passes
NewSucceeds(b) ==
    /\ b.ext_data
    /\ b.reply
    /\ b.supported
    /\ b.device_id # -1
    /\ b.locale
    /\ b.utf8
    /\ b.table
    /\ b.subscribed

(***************************************************************************)
(* The state machine                                                       *)
(***************************************************************************)
\* the six components a state object currently holds
MasksOf(st) ==
    Masks(st.base_mods, st.latched_mods, st.locked_mods,
          st.base_group, st.latched_group, st.locked_group)

\* observation: the masks a protocol event of the session's device brought in
\* (the event's fields for a state notification, the server's answer for a
\* reload)
ObservedMasks(ev, env, r) ==
    CASE r.note = "update_state" -> ev.masks
      [] r.note \in {"reloaded", "keymap_null", "state_null"} -> env.srv
      [] OTHER -> ZeroServerState

\* observation: how the outcome r of a protocol event relates to the state
\* object st held before it
ObservedDelta(st, ev, r) ==
    CASE r.note = "update_state" /\ ev.masks # MasksOf(st)
           /\ [ev.masks EXCEPT !.locked_group = st.locked_group] = MasksOf(st)
           -> "only_locked_group"
      [] r.note = "reloaded" /\ MasksOf(r.state) # MasksOf(st)
           -> "mods_replaced"
      [] OTHER -> "none"

\* observation: the answers new() got, as far as they decide its result
ObservedBoot(b) ==
    [ext_data |-> b.ext_data, reply |-> b.reply, supported |-> b.supported,
     device_id |-> b.device_id, locale |-> b.locale, utf8 |-> b.utf8,
     table |-> b.table, subscribed |-> b.subscribed]

NoBoot ==
    [ext_data |-> FALSE, reply |-> FALSE, supported |-> FALSE,
     device_id |-> -1, locale |-> FALSE, utf8 |-> FALSE,
     table |-> FALSE, subscribed |-> FALSE]

\* variant: a successful reload also resets the compose machine
ComposeAfterXkbEventReset(cs, note) ==
    IF note = "reloaded" THEN reset(cs) ELSE cs

\* process_xkb_event never borrows compose_state
ComposeAfterXkbEvent(cs, note) == cs

\* observation: how far the calls up to this key event follow the two-key
\* compose scenario (releases in between do not count):
\*   1  a press of a sequence-start symbol was fed to an idle machine
\*   2  then a press of a symbol completing a two-key sequence whose result is
\*      a character
\*   3  then a press of a symbol that starts no sequence
ObservedScenario(prev, cs, pressed, xsym) ==
    CASE ~pressed -> prev.scenario
      [] pressed /\ prev.scenario = 1 /\ Len(cs.context) = 1
           /\ Append(cs.context, xsym) \in ComposeSeqs
           /\ keysym_to_keycode(ComposeResult(Append(cs.context, xsym))).kind
                = "Char"
           -> 2
      [] pressed /\ prev.scenario = 2 /\ <<xsym>> \notin ComposeNodes -> 3
      [] pressed /\ status(cs) = "Nothing"
           /\ <<xsym>> \in ComposeNodes \ ComposeSeqs
           -> 1
      [] OTHER -> 0

\* observation of the most recent call: its inputs and what it returned
NoCall ==
    [op |-> "none", pressed |-> FALSE, xcode |-> 0, xsym |-> "NoSymbol",
     cstate |-> "NotFed", ksym |-> NoKsym, emitted |-> FALSE,
     event |-> NoEvent, result |-> "Ok", ev_device_id |-> -1,
     xkb_type |-> "none", note |-> "none", mods |-> {},
     masks |-> ZeroServerState, delta |-> "none", scenario |-> 0,
     boot |-> NoBoot]

(***************************************************************************)
(* config/src/font.rs: FontAttributes, TextStyle, font_with_fallback       *)
(***************************************************************************)
\* struct FontAttributes
FontAttributes(family, bold, italic, is_fallback) ==
    [family |-> family, bold |-> bold, italic |-> italic,
     is_fallback |-> is_fallback]

\* FontAttributes::new_fallback
new_fallback(family) == FontAttributes(family, FALSE, FALSE, TRUE)

\* impl Default for FontAttributes
FontAttributesDefault == FontAttributes("JetBrains Mono", FALSE, FALSE, FALSE)

\* struct TextStyle
TextStyle(font, foreground) == [font |-> font, foreground |-> foreground]

\* impl Default for TextStyle
TextStyleDefault == TextStyle(<<FontAttributesDefault>>, "None")

\* font specifications a configuration can list: the default one, two that
\* differ from it in one field, another family, and the emoji font
FontSamples ==
    {FontAttributesDefault,
     FontAttributes("JetBrains Mono", TRUE, FALSE, FALSE),
     FontAttributes("JetBrains Mono", FALSE, FALSE, TRUE),
     FontAttributes("Fira Code", FALSE, TRUE, FALSE),
     new_fallback("Noto Color Emoji")}

\* the styles font_with_fallback is applied to
TextStyles ==
    {TextStyle(font, fg) :
        font \in UNION {[1..n -> FontSamples] : n \in 0..MaxFonts},
        fg \in {"None", "Some"}}

\* font.iter().position(|f| *f == default_font)
position(font, attr) ==
    IF \E i \in 1..Len(font) : font[i] = attr
    THEN CHOOSE i \in 1..Len(font) :
            font[i] = attr /\ \A j \in 1..(i - 1) : font[j] # attr
    ELSE 0

\* variant: an entry of the default family counts as the default font
font_with_fallbackByFamily(self) ==
    LET default_font == FontAttributesDefault
        present == \E i \in 1..Len(self.font) :
                      self.font[i].family = default_font.family
        font == IF ~present
                THEN Append(self.font, [default_font EXCEPT !.is_fallback = TRUE])
                ELSE self.font
    IN Append(Append(font, new_fallback("Noto Color Emoji")),
              new_fallback("Last Resort High-Efficiency"))

\* TextStyle::font_with_fallback; position 0 stands for None
font_with_fallback(self) ==
    LET default_font == FontAttributesDefault
        font == IF position(self.font, default_font) = 0
                THEN Append(self.font, [default_font EXCEPT !.is_fallback = TRUE])
                ELSE self.font
    IN Append(Append(font, new_fallback("Noto Color Emoji")),
              new_fallback("Last Resort High-Efficiency"))

\* no call of font_with_fallback yet
NoFonts == <<>>

Init ==
    /\ style = TextStyleDefault
    /\ fonts = NoFonts
    /\ phase = "boot"
    /\ device_id = -1
    /\ keymap = NullKeymap
    /\ state = NoState
    /\ compose_state = NewComposeState
    /\ last = NoCall

New ==
    /\ phase = "boot"
    /\ \E b \in BootEnvs :
         IF NewSucceeds(b)
         THEN /\ phase' = "ready"
              /\ device_id' = b.device_id
              /\ keymap' = Keymap(0, b.layout)
              /\ state' = StateOf(Keymap(0, b.layout), b.srv)
              /\ compose_state' = NewComposeState
              /\ last' = [NoCall EXCEPT !.op = "new", !.result = "Ok",
                                        !.boot = ObservedBoot(b)]
         ELSE /\ phase' = "failed"
              /\ last' = [NoCall EXCEPT !.op = "new", !.result = "Err",
                                        !.boot = ObservedBoot(b)]
              /\ UNCHANGED <<device_id, keymap, state, compose_state>>
    /\ UNCHANGED font_vars

ProcessKeyEvent ==
    /\ phase = "ready"
    /\ \E pressed \in BOOLEAN, xcode \in Keycodes :
         \E r \in {process_key_event(state, compose_state, pressed, xcode)} :
            /\ compose_state' = r.compose
            /\ last' = [NoCall EXCEPT !.op = "process_key_event",
                                      !.pressed = pressed, !.xcode = xcode,
                                      !.xsym = r.xsym, !.cstate = r.cstate,
                                      !.ksym = r.ksym, !.emitted = r.emitted,
                                      !.event = r.event,
                                      !.scenario =
                                          ObservedScenario(last, compose_state,
                                                           pressed, r.xsym)]
    /\ UNCHANGED <<phase, device_id, keymap, state>>
    /\ UNCHANGED font_vars

GetKeyModifiers ==
    /\ phase = "ready"
    /\ last' = [NoCall EXCEPT !.op = "get_key_modifiers",
                              !.mods = get_key_modifiers(state)]
    /\ UNCHANGED <<phase, device_id, keymap, state, compose_state>>
    /\ UNCHANGED font_vars

ProcessXkbEvent ==
    /\ phase = "ready"
    /\ \E ev \in XkbEventsFor(device_id) :
       \E env \in IF /\ ev.xkb_type \in {"MAP_NOTIFY", "NEW_KEYBOARD_NOTIFY"}
                     /\ DeviceMatches(ev.device_id, device_id)
                  THEN ReloadEnvs ELSE {NoReload} :
         \E r \in {process_xkb_event(device_id, keymap, state, ev, env)} :
            /\ r.keymap.gen <= MaxReloads
            /\ keymap' = r.keymap
            /\ state' = r.state
            /\ last' = [NoCall EXCEPT !.op = "process_xkb_event",
                                      !.result = r.result,
                                      !.ev_device_id = ev.device_id,
                                      !.xkb_type = ev.xkb_type,
                                      !.note = r.note,
                                      !.masks = ObservedMasks(ev, env, r),
                                      !.delta = ObservedDelta(state, ev, r)]
            /\ compose_state' = ComposeAfterXkbEvent(compose_state, r.note)
    /\ UNCHANGED <<phase, device_id>>
    /\ UNCHANGED font_vars

Next == New \/ ProcessKeyEvent \/ GetKeyModifiers \/ ProcessXkbEvent

Spec == Init /\ [][Next]_vars

(***************************************************************************)
(* font_with_fallback applied to the styles of TextStyles                  *)
(***************************************************************************)
FontInit ==
    /\ style \in TextStyles
    /\ fonts = NoFonts
    /\ phase = "boot"
    /\ device_id = -1
    /\ keymap = NullKeymap
    /\ state = NoState
    /\ compose_state = NewComposeState
    /\ last = NoCall

\* a call style.font_with_fallback(); &self leaves the style as it is
FontWithFallback ==
    /\ fonts' = font_with_fallback(style)
    /\ UNCHANGED <<style, phase, device_id, keymap, state, compose_state, last>>

FontNext == FontWithFallback

FontSpec == FontInit /\ [][FontNext]_vars

(***************************************************************************)
(* Properties                                                              *)
(***************************************************************************)
\* the last call was process_key_event on a press / on a release
LastPress == last.op = "process_key_event" /\ last.pressed
LastRelease == last.op = "process_key_event" /\ ~last.pressed

\* C1: a press whose feed leaves the compose machine Composing returns None
\* and does not reset the machine: it is still Composing, at the position
\* the feed reached, when the next press is fed.
C1_ComposingSwallowed ==
    (LastPress /\ last.cstate = "Composing")
        => /\ ~last.emitted
           /\ status(compose_state) = "Composing"
           /\ compose_state.context # Root

\* C1 witness: the second swallowed press of a run (Multi_key, e)
C1_Witness ==
    /\ LastPress
    /\ last.cstate = "Composing"
    /\ compose_state.context = <<"Multi_key", "e">>
    /\ ~last.emitted

\* C2 as stated: every press that completes a sequence returns Some and
\* leaves the machine Nothing.
C2_ComposedAlwaysEmits ==
    (LastPress /\ last.cstate = "Composed")
        => last.emitted /\ status(compose_state) = "Nothing"

\* C2 amended: a press that completes a sequence leaves the machine Nothing,
\* and returns Some exactly when the effective symbol or the originally
\* resolved symbol has a key code; the event is for that press.
C2_ComposedEmitsIfMapped ==
    (LastPress /\ last.cstate = "Composed")
        => /\ status(compose_state) = "Nothing"
           /\ compose_state = NewComposeState
           /\ last.emitted <=> (keysym_to_keycode(last.ksym) # NoKeyCode
                                \/ keysym_to_keycode(last.xsym) # NoKeyCode)
           /\ last.emitted => (last.event.raw_code = last.xcode
                               /\ last.event.key_is_down)

\* C2 witness: dead_acute, e completes and emits the composed character
C2_Witness ==
    /\ LastPress
    /\ last.cstate = "Composed"
    /\ last.xsym = "e"
    /\ last.emitted
    /\ last.event.key = KeyCode("Char", 233)
    /\ status(compose_state) = "Nothing"

\* C3: whenever the session is at rest (between calls) the compose machine
\* is Nothing or Composing, never Composed or Cancelled.
C3_RestStatus ==
    phase = "ready" => status(compose_state) \in {"Nothing", "Composing"}

\* C3 witness: a cancelling press has returned and the machine is Nothing
C3_Witness ==
    /\ LastPress
    /\ last.cstate = "Cancelled"
    /\ status(compose_state) = "Nothing"

\* C4: a press whose feed leaves the machine Cancelled resets it to Nothing
\* and returns None.
C4_CancelledSwallowed ==
    (LastPress /\ last.cstate = "Cancelled")
        => /\ ~last.emitted
           /\ compose_state = NewComposeState
           /\ status(compose_state) = "Nothing"

\* C4 witness: the cancelling press carried a symbol that has a key code
C4_Witness ==
    /\ LastPress
    /\ last.cstate = "Cancelled"
    /\ keysym_to_keycode(last.xsym) # NoKeyCode
    /\ ~last.emitted

\* C5: on a press for which the compose machine reports Nothing, the
\* effective symbol is the symbol resolved from the key code, and an emitted
\* event carries the key code of that symbol.
C5_NothingPassThrough ==
    (LastPress /\ last.cstate = "Nothing")
        => /\ last.xsym = key_get_one_sym(state, last.xcode)
           /\ last.ksym = last.xsym
           /\ last.emitted <=> keysym_to_keycode(last.xsym) # NoKeyCode
           /\ last.emitted => last.event.key = keysym_to_keycode(last.xsym)

\* C5 witness: Shift+c resolved to "C" and passed through as Char('C')
C5_Witness ==
    /\ LastPress
    /\ last.cstate = "Nothing"
    /\ last.xsym = "C"
    /\ last.emitted
    /\ last.event.key = KeyCode("Char", 67)

\* C6: a release never feeds, queries or resets the compose machine, and its
\* effective symbol is the directly resolved symbol.
C6_ReleaseLeavesCompose ==
    [][(last'.op = "process_key_event" /\ ~last'.pressed)
         => /\ compose_state' = compose_state
            /\ last'.cstate = "NotFed"
            /\ last'.xsym = key_get_one_sym(state, last'.xcode)
            /\ last'.ksym = last'.xsym
            /\ last'.emitted <=> keysym_to_keycode(last'.xsym) # NoKeyCode
            /\ last'.emitted
                 => last'.event.key = keysym_to_keycode(last'.xsym)]_vars

\* C6 witness: a release of "e" arrived after dead_acute and the machine is
\* still Composing
C6_Witness ==
    /\ LastRelease
    /\ last.xsym = "e"
    /\ last.emitted
    /\ compose_state.context = <<"dead_acute">>
    /\ status(compose_state) = "Composing"

\* a character key that is neither ASCII whitespace nor an ASCII control
PrintableChar(kc) ==
    /\ kc.kind = "Char"
    /\ kc.c \notin {9, 10, 12, 13, 32}
    /\ ~(kc.c < 32 \/ kc.c = 127)

\* C7: in every emitted event, a printable non-whitespace non-control
\* character carries no SHIFT in the corrected set; every other key carries
\* the raw set.
C7_ShiftSuppression ==
    (last.op = "process_key_event" /\ last.emitted)
        => /\ last.event.raw_modifiers = get_key_modifiers(state)
           /\ IF PrintableChar(last.event.key)
              THEN "SHIFT" \notin last.event.modifiers
              ELSE last.event.modifiers = last.event.raw_modifiers

\* C7 witness: Shift+C reported as Char('C') with SHIFT only in the raw set
C7_Witness ==
    /\ last.op = "process_key_event"
    /\ last.emitted
    /\ last.event.key = KeyCode("Char", 67)
    /\ "SHIFT" \in last.event.raw_modifiers
    /\ "SHIFT" \notin last.event.modifiers

\* C8: a reload that fails validation returns Err and leaves the session's
\* keymap and state objects, and every query on them, as they were.
C8_FailedReloadKeepsPair ==
    [][(last'.op = "process_xkb_event"
          /\ last'.note \in {"keymap_null", "state_null"})
         => /\ last'.result = "Err"
            /\ keymap' = keymap
            /\ state' = state
            /\ get_key_modifiers(state') = get_key_modifiers(state)
            /\ \A k \in Keycodes :
                 key_get_one_sym(state', k) = key_get_one_sym(state, k)]_vars

\* C8 witness: a reload failed on the state handle after an earlier reload
\* and a state notification had changed the pair
C8_Witness ==
    /\ last.op = "process_xkb_event"
    /\ last.note = "state_null"
    /\ last.result = "Err"
    /\ keymap.gen = 1
    /\ state.base_mods = {"Control", "Mod1", "Mod4"}

\* C9: whenever a reader can run, the state object is the one derived from
\* the session's current keymap, and neither handle is null.
C9_PairConsistent ==
    phase = "ready"
        => /\ state.keymap = keymap
           /\ keymap.gen # NullGen
           /\ ~state.null

\* C9 witness: a reload has just replaced the pair with a different layout
C9_Witness ==
    /\ last.op = "process_xkb_event"
    /\ last.note = "reloaded"
    /\ keymap = Keymap(1, "intl")
    /\ state.keymap = keymap

\* C10: an event of another device changes neither keymap, state nor compose
\* machine and returns Ok; the session's device identifier never changes
\* once the session exists.
C10_OtherDeviceIgnored ==
    [][/\ (last'.op = "process_xkb_event" /\ last'.ev_device_id # device_id)
            => /\ last'.result = "Ok"
               /\ keymap' = keymap
               /\ state' = state
               /\ compose_state' = compose_state
       /\ phase = "ready" => device_id' = device_id]_vars

\* C10 witness: a new-keyboard notification of another device was ignored
C10_Witness ==
    /\ last.op = "process_xkb_event"
    /\ last.ev_device_id # device_id
    /\ last.xkb_type = "NEW_KEYBOARD_NOTIFY"
    /\ last.note = "other_device"
    /\ last.result = "Ok"


\* the step is a protocol event of type t carried out for the session's device
OwnEvent(t) ==
    /\ last'.op = "process_xkb_event"
    /\ last'.xkb_type = t
    /\ last'.ev_device_id = device_id

\* C11: a state notification of the session's device sets the six components
\* of the current state object from the event, keeps the object's keymap, and
\* changes neither the session's keymap, the compose machine nor the device
\* identifier; it is not a reload.
C11_StateNotifyInPlace ==
    [][OwnEvent("STATE_NOTIFY")
         => /\ last'.note = "update_state"
            /\ last'.result = "Ok"
            /\ MasksOf(state') = last'.masks
            /\ state'.keymap = state.keymap
            /\ state'.null = state.null
            /\ keymap' = keymap
            /\ compose_state' = compose_state
            /\ device_id' = device_id]_vars

\* C11 witness: a state notification arrived in the middle of a compose
\* sequence, after a reload, and set modifier and group components
C11_Witness ==
    /\ last.op = "process_xkb_event"
    /\ last.note = "update_state"
    /\ keymap.gen = 1
    /\ MasksOf(state) = Masks({}, {}, {}, 0, 0, 1)
    /\ status(compose_state) = "Composing"


\* C12: a layout-change event of the session's device takes the reload path
\* and leaves the compose machine as it was, whether the reload succeeds or
\* fails; every symbol a key event resolves is resolved with the session's
\* current keymap and the masks of its current state object.
C12_ReloadKeepsCompose ==
    [][/\ (OwnEvent("MAP_NOTIFY") \/ OwnEvent("NEW_KEYBOARD_NOTIFY"))
            => /\ last'.note \in {"reloaded", "keymap_null", "state_null"}
               /\ compose_state' = compose_state
       /\ last'.op = "process_key_event"
            => last'.xsym =
                 key_get_one_sym(StateOf(keymap', MasksOf(state')), last'.xcode)
      ]_vars

\* C12 witness: a reload replaced the "intl" layout, on which dead_acute had
\* started a sequence, by "us"; the machine is still Composing
C12_Witness ==
    /\ last.op = "process_xkb_event"
    /\ last.xkb_type = "NEW_KEYBOARD_NOTIFY"
    /\ last.note = "reloaded"
    /\ keymap = Keymap(1, "us")
    /\ compose_state.context = <<"dead_acute">>
    /\ status(compose_state) = "Composing"


\* C13: when process_key_event has an effective symbol (it did not swallow
\* the press), the event carries the key code of the effective symbol, or
\* else that of the originally resolved symbol; it returns None exactly when
\* neither symbol has a key code.
C13_KeycodeFallback ==
    (last.op = "process_key_event" /\ last.ksym # NoKsym)
        => LET eff == keysym_to_keycode(last.ksym)
               orig == keysym_to_keycode(last.xsym)
           IN /\ last.emitted <=> (eff # NoKeyCode \/ orig # NoKeyCode)
              /\ last.emitted
                   => last.event.key = IF eff # NoKeyCode THEN eff ELSE orig

\* C13 witness: Multi_key e e composed a symbol without key code and the
\* event fell back to the key code of the pressed "e"
C13_Witness ==
    /\ LastPress
    /\ last.cstate = "Composed"
    /\ last.ksym = "schwa"
    /\ keysym_to_keycode(last.ksym) = NoKeyCode
    /\ last.emitted
    /\ last.event.key = KeyCode("Char", 101)


\* C14: in the two-key scenario the press of the sequence-start symbol emits
\* nothing, the completing press emits one event carrying the composed
\* character and leaves the machine Nothing, and a following press of a
\* symbol that starts no sequence is processed from Nothing and carries its
\* own symbol.
C14_TwoKeyScenario ==
    [][(last'.op = "process_key_event" /\ last'.pressed)
         => /\ last'.scenario = 1
                 => /\ ~last'.emitted
                    /\ status(compose_state') = "Composing"
            /\ last'.scenario = 2
                 => /\ last'.emitted
                    /\ last'.event.key =
                         keysym_to_keycode(
                             ComposeResult(Append(compose_state.context,
                                                  last'.xsym)))
                    /\ last'.event.key # keysym_to_keycode(last'.xsym)
                    /\ status(compose_state') = "Nothing"
            /\ last'.scenario = 3
                 => /\ last'.cstate = "Nothing"
                    /\ last'.ksym = last'.xsym
                    /\ last'.emitted <=> keysym_to_keycode(last'.xsym) # NoKeyCode
                    /\ last'.emitted
                         => last'.event.key = keysym_to_keycode(last'.xsym)
      ]_vars

\* C14 witness: dead_acute, e, then c: the third press reported Char('c')
C14_Witness ==
    /\ LastPress
    /\ last.scenario = 3
    /\ last.xsym = "c"
    /\ last.emitted
    /\ last.event.key = KeyCode("Char", 99)


\* the modifier set C15 prescribes for the effective modifiers `eff`
ExpectedModifiers(eff) ==
    {m \in {"SHIFT", "CTRL", "ALT", "SUPER"} :
        \/ m = "SHIFT" /\ "Shift" \in eff
        \/ m = "CTRL" /\ "Control" \in eff
        \/ m = "ALT" /\ "Mod1" \in eff
        \/ m = "SUPER" /\ ("Mod4" \in eff \/ "Mod3" \in eff)}

\* C15: get_key_modifiers returns exactly SHIFT/CTRL/ALT/SUPER for effective
\* Shift/Control/Mod1/(Mod4 or Mod3) and nothing else, without shift
\* suppression, and raw_modifiers of every emitted event is that value for
\* the state at the time of the event.
C15_RawModifiers ==
    LET expected ==
            ExpectedModifiers(state.base_mods \cup state.latched_mods
                                \cup state.locked_mods)
    IN /\ last.op = "get_key_modifiers" => last.mods = expected
       /\ (last.op = "process_key_event" /\ last.emitted)
            => last.event.raw_modifiers = expected

\* C15 witness: Shift held and Mod3 latched are reported as SHIFT and SUPER
C15_Witness ==
    /\ last.op = "get_key_modifiers"
    /\ state.base_mods = {"Shift"}
    /\ state.latched_mods = {"Mod3"}
    /\ last.mods = {"SHIFT", "SUPER"}


C17_ReloadReplacesBoth ==
    [][(last'.op = "process_xkb_event" /\ last'.note = "reloaded")
         => /\ last'.result = "Ok"
            /\ keymap'.gen = keymap.gen + 1
            /\ keymap' # keymap
            /\ state'.keymap = keymap'
            /\ state' = StateOf(keymap', last'.masks)
            /\ get_key_modifiers(state')
                 = ExpectedModifiers(last'.masks.base_mods
                                       \cup last'.masks.latched_mods
                                       \cup last'.masks.locked_mods)]_vars

\* C17 witness: a successful reload whose new state object has all masks
\* zero replaced a state object that carried masks from earlier events
C17_Witness ==
    /\ last.op = "process_xkb_event"
    /\ last.note = "reloaded"
    /\ last.delta = "mods_replaced"
    /\ keymap.gen = 1
    /\ MasksOf(state) = ZeroServerState
    /\ get_key_modifiers(state) = {}


\* a state notification of the session's device in which only the locked
\* group differs from the current state object
LockedGroupOnly ==
    OwnEvent("STATE_NOTIFY") /\ last'.delta = "only_locked_group"

\* C18 as stated: a state notification of the session's device that differs
\* from the current state only in the locked group changes what
\* get_key_modifiers returns, and the keymap is not replaced.
C18_LockedGroupChangesModifiers ==
    [][LockedGroupOnly
         => /\ get_key_modifiers(state') # get_key_modifiers(state)
            /\ keymap' = keymap]_vars

\* C18: a state notification of the session's device that differs from the
\* current state only in the locked group sets the locked group of the
\* current state object and replaces neither the keymap nor the state
\* object's keymap; get_key_modifiers returns the same set as before.
C18_LockedGroupInPlace ==
    [][LockedGroupOnly
         => /\ state'.locked_group = last'.masks.locked_group
            /\ state'.locked_group # state.locked_group
            /\ get_key_modifiers(state') = get_key_modifiers(state)
            /\ keymap' = keymap
            /\ state'.keymap = state.keymap
            /\ last'.note = "update_state"]_vars

\* C18 witness: with Shift held, a state notification moved the locked group
\* from 0 to 1 on the bootstrap keymap
C18_Witness ==
    /\ last.op = "process_xkb_event"
    /\ last.delta = "only_locked_group"
    /\ state.locked_group = 1
    /\ state.base_mods = {"Shift"}
    /\ get_key_modifiers(state) = {"SHIFT"}
    /\ keymap.gen = 0


\* C19: process_xkb_event returns Err only for a MAP_NOTIFY or
\* NEW_KEYBOARD_NOTIFY of the session's device whose reload fails its
\* validation; state notifications, other sub-types and events of other
\* devices return Ok, and an unrecognised sub-type of the session's device
\* changes nothing.
C19_ErrOnlyOnFailedReload ==
    [][last'.op = "process_xkb_event"
         => /\ last'.result = "Err"
                 <=> /\ last'.xkb_type \in {"MAP_NOTIFY", "NEW_KEYBOARD_NOTIFY"}
                     /\ last'.ev_device_id = device_id
                     /\ last'.note \in {"keymap_null", "state_null"}
            /\ last'.xkb_type \notin {"MAP_NOTIFY", "NEW_KEYBOARD_NOTIFY"}
                 => last'.result = "Ok"
            /\ last'.ev_device_id # device_id => last'.result = "Ok"
            /\ OwnEvent("CONTROLS_NOTIFY")
                 => /\ last'.note = "other_type"
                    /\ UNCHANGED <<phase, device_id, keymap, state,
                                   compose_state>>]_vars

\* C19 witness: a NEW_KEYBOARD_NOTIFY of the session's device returned Err
\* because the new keymap was null, in the middle of a compose sequence
C19_Witness ==
    /\ last.op = "process_xkb_event"
    /\ last.xkb_type = "NEW_KEYBOARD_NOTIFY"
    /\ last.ev_device_id = device_id
    /\ last.result = "Err"
    /\ last.note = "keymap_null"
    /\ status(compose_state) = "Composing"


\* C20: process_key_event changes neither the keymap, the state object nor
\* the device identifier, for presses and releases, with or without an
\* emitted event; it can change the compose machine only, and only on a
\* press.
C20_KeyEventFrame ==
    [][last'.op = "process_key_event"
         => /\ keymap' = keymap
            /\ state' = state
            /\ device_id' = device_id
            /\ phase' = phase
            /\ compose_state' # compose_state => last'.pressed]_vars

\* C20 witness: a release that emitted nothing arrived with Shift held in the
\* middle of a compose sequence
C20_Witness ==
    /\ LastRelease
    /\ ~last.emitted
    /\ state.base_mods = {"Shift"}
    /\ status(compose_state) = "Composing"


\* C21: in every emitted event the corrected modifier set is a subset of the
\* raw set and the two differ at most in SHIFT; CTRL, ALT and SUPER are
\* neither added nor removed.
C21_CorrectionOnlyShift ==
    (last.op = "process_key_event" /\ last.emitted)
        => /\ last.event.modifiers \subseteq last.event.raw_modifiers
           /\ last.event.raw_modifiers \ last.event.modifiers \subseteq {"SHIFT"}
           /\ \A m \in {"CTRL", "ALT", "SUPER"} :
                 m \in last.event.modifiers <=> m \in last.event.raw_modifiers

\* C21 witness: a printable character emitted with Shift held and Mod3
\* latched keeps SUPER and loses SHIFT
C21_Witness ==
    /\ last.op = "process_key_event"
    /\ last.emitted
    /\ PrintableChar(last.event.key)
    /\ last.event.raw_modifiers = {"SHIFT", "SUPER"}
    /\ last.event.modifiers = {"SUPER"}


\* the style's list holds an entry equal to the default font attributes
ListsDefault(s) == \E i \in 1..Len(s.font) : s.font[i] = FontAttributesDefault

\* C22: font_with_fallback returns the style's own entries in their order,
\* then JetBrains Mono marked as fallback exactly if no entry equals the
\* default font attributes, then the emoji font and the last-resort font as
\* the final two entries; the style itself is not modified.
C22_FontWithFallback ==
    [][fonts' # fonts
         => LET n == Len(style.font)
                k == IF ListsDefault(style) THEN n ELSE n + 1
            IN /\ style' = style
               /\ Len(fonts') = k + 2
               /\ \A i \in 1..n : fonts'[i] = style.font[i]
               /\ ~ListsDefault(style)
                    => fonts'[n + 1]
                         = FontAttributes("JetBrains Mono", FALSE, FALSE, TRUE)
               /\ fonts'[k + 1]
                    = FontAttributes("Noto Color Emoji", FALSE, FALSE, TRUE)
               /\ fonts'[k + 2]
                    = FontAttributes("Last Resort High-Efficiency",
                                     FALSE, FALSE, TRUE)]_vars

\* C22 witness: a list naming JetBrains Mono bold and the emoji font got the
\* default family, the emoji font and the last-resort font appended
C22_Witness ==
    /\ style.font = <<FontAttributes("JetBrains Mono", TRUE, FALSE, FALSE),
                      new_fallback("Noto Color Emoji")>>
    /\ Len(fonts) = 5
    /\ fonts[3] = FontAttributes("JetBrains Mono", FALSE, FALSE, TRUE)
    /\ fonts[4] = new_fallback("Noto Color Emoji")
    /\ fonts[5] = new_fallback("Last Resort High-Efficiency")

====
